---- MODULE Spec2Model ----
(***************************************************************************)
(* Model of src/src/core/gemini_client.py (class GeminiClient) together    *)
(* with the collaborators it touches: the process environment, one file    *)
(* of the filesystem, one readable stream owned by the caller, and the     *)
(* remote generate_content endpoint.                                       *)
(*                                                                         *)
(* Python values are modelled as follows.  Byte strings are sequences of   *)
(* small naturals.  Text built by f-strings is a sequence of tokens, so    *)
(* that "the message contains the cause's message" is a sub-sequence       *)
(* test.  An exception is a record [kind, msg] with kind the Python class  *)
(* name.  None is the string NONE.                                         *)
(***************************************************************************)
EXTENDS Integers, Sequences, FiniteSets, TLC

VARIABLES
    environ,  \* os.environ["GOOGLE_API_KEY"] of the process
    self,     \* the GeminiClient object the caller holds (or NoClient)
    fs,       \* the file behind the path "chart.png"
    stream,   \* the caller's readable stream (a Streamlit uploaded file)
    pc,       \* position of the current analyze_image_with_prompt call
    call,     \* locals of the current call, plus its dispatch counter
    result,   \* what analyze_image_with_prompt returned or raised
    probe,    \* what test_connection returned
    last      \* outcome of the last constructor or change_model call

vars == <<environ, self, fs, stream, pc, call, result, probe, last>>

-----------------------------------------------------------------------------
(* Bounds *)

\* longest byte content of the file, the stream and a bytes argument
MaxLen == 2

-----------------------------------------------------------------------------
(* Values *)

NONE == "<None>"
UNSET == "<unset>"

\* Byte contents: the code never inspects a byte, so one content per length
\* is enough; the bytes of a content differ so that offsets are visible.
Contents == {[i \in 1..n |-> i] : n \in 0..MaxLen}

NoError == [kind |-> "none", msg |-> <<>>]
Exc(kind, msg) == [kind |-> kind, msg |-> msg]

\* s contains t as a contiguous sub-sequence
Contains(s, t) ==
    \E i \in 0..(Len(s) - Len(t)) : SubSeq(s, i + 1, i + Len(t)) = t

\* credentials a caller may pass: None, the empty string, a real key
Credentials == {NONE, "", "k1"}

\* Config.DEFAULT_MODEL and the default of GeminiClient.__init__
DEFAULT_MODEL == "gemini-2.5-flash"

\* GeminiClient.get_supported_models
get_supported_models ==
    <<"gemini-2.5-flash", "gemini-2.0-flash-exp", "gemini-1.5-flash">>

InList(x, lst) == \E i \in 1..Len(lst) : lst[i] = x

\* model ids a caller (or the GEMINI_MODEL environment variable read by
\* Config.get_model) may supply
ModelArgs == {get_supported_models[i] : i \in 1..Len(get_supported_models)}
                 \cup {"not-a-real-model"}

NoClient == [exists |-> FALSE, api_key |-> NONE, model |-> NONE, client |-> "None"]

-----------------------------------------------------------------------------
(* Construction *)

\* GeminiClient._initialize_client: Client(api_key=...) of the SDK either
\* returns a session or raises, and the exception is re-raised.
_initialize_client(api_key, session_ok) ==
    IF session_ok
    THEN [client |-> "Client", error |-> NoError]
    ELSE [client |-> "None", error |-> Exc("Exception", <<"client setup failed">>)]

\* GeminiClient.__init__: stores the arguments, writes the key into the
\* process environment, then sets up the session.  os.environ refuses a
\* value that is not a string with TypeError.
GeminiClient_init(api_key, model, env, session_ok) ==
    IF api_key = NONE
    THEN [obj |-> NoClient, environ |-> env, session_attempted |-> FALSE,
          error |-> Exc("TypeError", <<"str expected, not NoneType">>)]
    ELSE LET s == _initialize_client(api_key, session_ok) IN
         [obj |-> IF s.error = NoError
                  THEN [exists |-> TRUE, api_key |-> api_key, model |-> model,
                        client |-> s.client]
                  ELSE NoClient,
          environ |-> api_key,
          session_attempted |-> TRUE,
          error |-> s.error]

NoLast == [op |-> "none", arg |-> NONE, before |-> NONE, error |-> NoError,
           session_attempted |-> FALSE, env_before |-> UNSET]

NoCall == [api |-> "none", kind |-> "none", data |-> <<>>, prompt |-> "",
           pos0 |-> 0, normalized |-> FALSE, image_bytes |-> <<>>,
           request |-> [model |-> NONE, parts |-> <<>>],
           dispatches |-> 0, cause |-> NoError]

NoResult == [status |-> "none", text |-> "", error |-> NoError]

\* The caller constructs a client (app.py line 127, or any other caller).
\* A constructor that raises leaves the caller with the object it had.
Create(api_key, model, session_ok) ==
    /\ pc = "idle"
    /\ LET r == GeminiClient_init(api_key, model, environ, session_ok) IN
       /\ environ' = r.environ
       /\ self' = IF r.error = NoError THEN r.obj ELSE self
       /\ last' = [op |-> "create", arg |-> api_key, before |-> NONE,
                   error |-> r.error,
                   session_attempted |-> r.session_attempted,
                   env_before |-> environ]
    /\ UNCHANGED <<fs, stream, pc, call, result, probe>>

-----------------------------------------------------------------------------
(* analyze_image_with_prompt *)

\* instructions a caller passes; the last is analyze_image_simple's
default_prompt == "Please analyze this image and describe what you see in detail."
test_prompt == "Hello, this is a test."
Prompts == {"describe", default_prompt}

\* kinds of value a caller may pass as image_path: a str/Path, a bytes
\* object, an object with read() and seek(), anything else (an int)
Kinds == {"path", "bytes", "stream", "other"}

\* stream.read(): everything from the cursor to the end; the cursor ends up
\* at the end
stream_read(strm) ==
    [data |-> SubSeq(strm.content, strm.pos + 1, Len(strm.content)),
     stream |-> [strm EXCEPT !.pos = Len(strm.content)]]

\* a seek that leaves the cursor where read() put it
stream_seek_ignored(strm, p) == strm

\* stream.seek(p)
stream_seek(strm, p) == [strm EXCEPT !.pos = p]

\* read_upload seeking back to the position the stream had on entry
read_upload_restore(strm) ==
    LET r == stream_read(strm) IN
    [error |-> NoError, image_bytes |-> r.data,
     stream |-> stream_seek(r.stream, strm.pos)]

\* the else branch: image_bytes = image_path.read(); image_path.seek(0)
read_upload(strm) ==
    LET r == stream_read(strm) IN
    [error |-> NoError, image_bytes |-> r.data, stream |-> stream_seek(r.stream, 0)]

\* the str/Path branch: open(image_path, "rb").read()
read_path(file, strm) ==
    IF file.exists
    THEN [error |-> NoError, image_bytes |-> file.data, stream |-> strm]
    ELSE [error |-> Exc("FileNotFoundError", <<"No such file or directory">>),
          image_bytes |-> <<>>, stream |-> strm]

\* the bytes branch using the argument as the image
read_bytes_asis(data, strm) ==
    [error |-> NoError, image_bytes |-> data, stream |-> strm]

\* the bytes branch: "image_bytes = image_bytes" reads the local before any
\* assignment to it, which Python answers with UnboundLocalError
read_bytes(data, strm) ==
    [error |-> Exc("UnboundLocalError",
                   <<"local variable 'image_bytes' referenced before assignment">>),
     image_bytes |-> <<>>, stream |-> strm]

\* the else branch treating a value without read() as an empty image
read_other_lenient(strm) ==
    [error |-> NoError, image_bytes |-> <<>>, stream |-> strm]

\* the else branch on a value that is no stream: image_path.read() fails
read_other(strm) ==
    [error |-> Exc("AttributeError", <<"object has no attribute 'read'">>),
     image_bytes |-> <<>>, stream |-> strm]

\* the isinstance chain that normalizes the image argument
normalize(kind, data, file, strm) ==
    CASE kind = "path" -> read_path(file, strm)
      [] kind = "bytes" -> read_bytes(data, strm)
      [] kind = "stream" -> read_upload(strm)
      [] OTHER -> read_other(strm)

\* types.Content(parts=[image_part, text_part])
build_content(image_bytes, prompt) ==
    << [type |-> "bytes", data |-> image_bytes, mime_type |-> "image/png", text |-> ""],
       [type |-> "text", data |-> <<>>, mime_type |-> "", text |-> prompt] >>

\* the try block up to the remote call
prepare(obj, kind, data, prompt, file, strm) ==
    IF obj.client = "None"
    THEN [error |-> Exc("RuntimeError", <<"Gemini client not initialized">>),
          image_bytes |-> <<>>, stream |-> strm, parts |-> <<>>]
    ELSE LET n == normalize(kind, data, file, strm) IN
         [error |-> n.error, image_bytes |-> n.image_bytes, stream |-> n.stream,
          parts |-> IF n.error = NoError THEN build_content(n.image_bytes, prompt)
                    ELSE <<>>]

\* an error message that drops the cause
error_msg_generic(e) == <<"Error analyzing image">>

\* error_msg = f"Error analyzing image: {str(e)}"
error_msg(e) == <<"Error analyzing image: ">> \o e.msg

\* an except clause that sends the request again instead of raising
except_handler_retry(e) == [pc |-> "built", result |-> NoResult]

\* except Exception as e: ... raise RuntimeError(error_msg)
except_handler(e) ==
    [pc |-> "done",
     result |-> [status |-> "raised", text |-> "",
                 error |-> Exc("RuntimeError", error_msg(e))]]

\* a return that strips the text
return_text_stripped(t) ==
    [status |-> "returned", text |-> IF t = " padded " THEN "padded" ELSE t,
     error |-> NoError]

\* return response.text
return_text(t) == [status |-> "returned", text |-> t, error |-> NoError]

\* test_connection answering True whatever the analyze call did
test_connection_optimistic(api, res) ==
    IF api # "probe" THEN "none" ELSE "True"

\* test_connection: True when the analyze call returned, False when it raised
test_connection(api, res) ==
    IF api # "probe" THEN "none"
    ELSE IF res.status = "returned" THEN "True" ELSE "False"

\* what the remote may answer: a response whose text is t ...
Texts == {"", "Bullish pattern", " padded "}

\* ... or a failure raised out of generate_content / response.text
RemoteFailures ==
    { Exc("ConnectionError", <<"network unreachable">>),
      Exc("PermissionDenied", <<"API key not valid">>),
      Exc("MalformedResponse", <<"response has no text">>),
      Exc("InvalidArgument", <<"image rejected">>) }

\* analyze_image_with_prompt as a function of its arguments, of the file and
\* the stream it reads, and of the remote's answer (a text or an exception):
\* the stream it leaves, the parts it sends, how often it dispatches and what
\* it returns or raises
analyze_image_with_prompt(obj, kind, data, prompt, file, strm, answer) ==
    LET p == prepare(obj, kind, data, prompt, file, strm) IN
    IF p.error # NoError
    THEN [stream |-> p.stream, parts |-> <<>>, dispatches |-> 0,
          result |-> except_handler(p.error).result]
    ELSE [stream |-> p.stream, parts |-> p.parts, dispatches |-> 1,
          result |-> IF answer.error = NoError
                     THEN return_text(answer.text)
                     ELSE except_handler(answer.error).result]

\* One call of analyze_image_with_prompt from entry to the remote call, or
\* to its raise when the try block fails before that.
Begin(api, kind, data, prompt) ==
    /\ pc = "idle"
    /\ self.exists
    /\ LET p == prepare(self, kind, data, prompt, fs, stream)
           c == [NoCall EXCEPT !.api = api, !.kind = kind, !.data = data,
                               !.prompt = prompt, !.pos0 = stream.pos]
       IN
       /\ stream' = p.stream
       /\ IF p.error = NoError
          THEN /\ pc' = "built"
               /\ call' = [c EXCEPT !.normalized = TRUE,
                                    !.image_bytes = p.image_bytes,
                                    !.request = [model |-> NONE, parts |-> p.parts]]
               /\ result' = NoResult
               /\ probe' = "none"
          ELSE LET h == except_handler(p.error) IN
               /\ pc' = h.pc
               /\ call' = [c EXCEPT !.cause = p.error]
               /\ result' = h.result
               /\ probe' = test_connection(api, h.result)
    /\ UNCHANGED <<environ, self, fs, last>>

\* analyze_image_with_prompt called by the caller
Analyze(kind, data, prompt) == Begin("analyze", kind, data, prompt)

\* analyze_image_simple sending no instruction of its own
AnalyzeSimple_no_prompt(kind, data) == Begin("simple", kind, data, "")

\* analyze_image_simple
AnalyzeSimple(kind, data) == Begin("simple", kind, data, default_prompt)

\* test_connection
TestConnection == Begin("probe", "bytes", <<>>, test_prompt)

\* a request that names a fixed model whatever the client's model is
request_model_fixed(obj) == DEFAULT_MODEL

\* model=self.model: the argument is evaluated once, when the call is made
request_model(obj) == obj.model

\* self.client.models.generate_content(model=self.model, contents=[content]):
\* the request leaves with the model id read at this moment
Dispatch ==
    /\ pc = "built"
    /\ pc' = "inflight"
    /\ call' = [call EXCEPT !.request.model = request_model(self),
                            !.dispatches = call.dispatches + 1]
    /\ UNCHANGED <<environ, self, fs, stream, result, probe, last>>

\* the remote answers with text t, which is returned
RemoteText(t) ==
    /\ pc = "inflight"
    /\ pc' = "done"
    /\ result' = return_text(t)
    /\ probe' = test_connection(call.api, return_text(t))
    /\ UNCHANGED <<environ, self, fs, stream, call, last>>

\* the remote call fails with e, which the except clause handles
RemoteFail(e) ==
    /\ pc = "inflight"
    /\ LET h == except_handler(e) IN
       /\ pc' = h.pc
       /\ result' = h.result
       /\ probe' = test_connection(call.api, h.result)
    /\ call' = [call EXCEPT !.cause = e]
    /\ UNCHANGED <<environ, self, fs, stream, last>>

\* the caller takes the outcome of the call
Collect ==
    /\ pc = "done"
    /\ pc' = "idle"
    /\ call' = NoCall
    /\ result' = NoResult
    /\ probe' = "none"
    /\ UNCHANGED <<environ, self, fs, stream, last>>

\* the caller moves its own stream between calls (app.py shows the upload
\* with st.image before the analysis)
StreamSeek(p) ==
    /\ pc = "idle"
    /\ p # stream.pos
    /\ stream' = stream_seek(stream, p)
    /\ UNCHANGED <<environ, self, fs, pc, call, result, probe, last>>

-----------------------------------------------------------------------------
(* Model management *)

\* change_model without the membership test
change_model_unchecked(obj, new_model) == [model |-> new_model, error |-> NoError]

\* GeminiClient.change_model
change_model(obj, new_model) ==
    IF InList(new_model, get_supported_models)
    THEN [model |-> new_model, error |-> NoError]
    ELSE [model |-> obj.model,
          error |-> Exc("ValueError", <<"Unsupported model: ", new_model>>)]

\* change_model called on the client, possibly while a request is in flight
ChangeModel(m) ==
    /\ self.exists
    /\ LET r == change_model(self, m) IN
       /\ self' = [self EXCEPT !.model = r.model]
       /\ last' = [op |-> "change_model", arg |-> m, before |-> self.model,
                   error |-> r.error, session_attempted |-> FALSE,
                   env_before |-> environ]
    /\ UNCHANGED <<environ, fs, stream, pc, call, result, probe>>

-----------------------------------------------------------------------------

Init ==
    /\ environ = UNSET
    /\ self = NoClient
    /\ fs \in [exists : BOOLEAN, data : Contents]
    /\ (~fs.exists => fs.data = <<>>)
    /\ stream \in [content : Contents, pos : {0}, closed : {FALSE}]
    /\ pc = "idle"
    /\ call = NoCall
    /\ result = NoResult
    /\ probe = "none"
    /\ last = NoLast

Next ==
    \/ \E k \in Credentials, m \in ModelArgs, ok \in BOOLEAN : Create(k, m, ok)
    \/ \E k \in Kinds, d \in Contents, p \in Prompts :
          /\ (k # "bytes" => d = <<>>)
          /\ Analyze(k, d, p)
    \/ \E k \in Kinds, d \in Contents :
          /\ (k # "bytes" => d = <<>>)
          /\ AnalyzeSimple(k, d)
    \/ TestConnection
    \/ Dispatch
    \/ \E t \in Texts : RemoteText(t)
    \/ \E e \in RemoteFailures : RemoteFail(e)
    \/ Collect
    \/ \E p \in 0..Len(stream.content) : StreamSeek(p)
    \/ \E m \in ModelArgs : ChangeModel(m)

Spec == Init /\ [][Next]_vars

-----------------------------------------------------------------------------
(* Properties *)

\* the call has got past the normalization of its image argument
Normalized == pc \in {"built", "inflight", "done"} /\ call.normalized

\* the bytes the image argument of the current call carries
CarriedBytes ==
    CASE call.kind = "path" -> fs.data
      [] call.kind = "bytes" -> call.data
      [] call.kind = "stream" -> stream.content
      [] OTHER -> <<>>

\* the current call was given a readable image: an existing file, a bytes
\* object, or a stream positioned at 0
ReadableImage ==
    \/ call.kind = "path" /\ fs.exists
    \/ call.kind = "bytes"
    \/ call.kind = "stream" /\ call.pos0 = 0

\* the caller holds a client constructed with a non-empty credential
Ready == self.exists /\ self.api_key # ""

\* the error kind a failed remote call leaves analyze with
RemoteErrorKind == "RuntimeError"

\* C1: a finished analyze call of a ready client on a path, a bytes object or
\* a stream at offset 0 has dispatched once, with the carried bytes as the
\* image part and image/png as its MIME type, whatever the kind of the input.
C1_InputKindTransparency ==
    (Ready /\ pc = "done" /\ ReadableImage) =>
        /\ call.dispatches = 1
        /\ Len(call.request.parts) = 2
        /\ call.request.parts[1].data = CarriedBytes
        /\ call.request.parts[1].mime_type = "image/png"

\* C2 as stated: once a ready client has normalized the stream argument, the
\* stream's position is the one it had before the call, and the stream is
\* open.
C2_PositionRestored ==
    (Ready /\ Normalized /\ call.kind = "stream") =>
        (stream.pos = call.pos0 /\ ~stream.closed)

\* C2 amended: once the stream argument is normalized, the stream's position
\* is 0, whatever it was before the call, and the stream is open.
C2_PositionRewound ==
    (Normalized /\ call.kind = "stream") =>
        (stream.pos = 0 /\ ~stream.closed)

C2_Witness ==
    /\ Ready
    /\ Normalized
    /\ call.kind = "stream"
    /\ call.pos0 > 0
    /\ stream.pos = 0

\* C3: when analyze has finished on a stream that was at offset 0, by
\* returning text or by raising, a full read of the stream yields its whole
\* content.
C3_RoundTripAtZero ==
    (pc = "done" /\ call.kind = "stream" /\ call.pos0 = 0) =>
        stream_read(stream).data = stream.content

C3_Witness ==
    /\ Ready
    /\ pc = "done"
    /\ call.kind = "stream"
    /\ call.pos0 = 0
    /\ Len(stream.content) = MaxLen
    /\ call.dispatches = 1
    /\ result.status = "raised"
    /\ stream_read(stream).data = stream.content

\* C4: after change_model(m): if m is in the allow-list the call raised
\* nothing and the active model is m; otherwise it raised ValueError and the
\* active model is the one before the call; the allow-list is the same
\* three ids in the same order, the default model first.
C4_SetModel ==
    (last.op = "change_model") =>
        /\ InList(last.arg, get_supported_models) =>
              (last.error = NoError /\ self.model = last.arg)
        /\ ~InList(last.arg, get_supported_models) =>
              (last.error.kind = "ValueError" /\ self.model = last.before)
        /\ get_supported_models =
              <<"gemini-2.5-flash", "gemini-2.0-flash-exp", "gemini-1.5-flash">>
        /\ Head(get_supported_models) = DEFAULT_MODEL

C4_Witness ==
    /\ Ready
    /\ last.op = "change_model"
    /\ last.arg = "not-a-real-model"
    /\ last.error.kind = "ValueError"
    /\ self.model = "gemini-1.5-flash"

\* C5: the active model of a constructed client (here one holding a non-empty
\* credential) is in the allow-list.
C5_ActiveModelSupported ==
    Ready => InList(self.model, get_supported_models)

C7_DistinctErrorKind ==
    (Ready /\ pc = "done" /\ call.kind = "other") =>
        /\ result.status = "raised"
        /\ result.error.kind # RemoteErrorKind
        /\ call.dispatches = 0

\* C7 amended: an analyze call on a value of unknown kind raises the same
\* error kind remote failures are raised as, with the cause's message in its
\* message, without any dispatch.
C7_SameErrorKindNoDispatch ==
    (call.kind = "other") =>
        /\ call.dispatches = 0
        /\ pc = "done"
        /\ result.status = "raised"
        /\ result.error.kind = RemoteErrorKind
        /\ Contains(result.error.msg, call.cause.msg)

C7_Witness ==
    /\ Ready
    /\ pc = "done"
    /\ call.kind = "other"
    /\ call.cause.kind = "AttributeError"
    /\ result.status = "raised"
    /\ call.dispatches = 0

\* C8: when the remote call of a finished analyze failed, analyze raised
\* RuntimeError, whatever the failure was, with the failure's message inside
\* its message, and returned nothing.
C8_RemoteFailureWrapped ==
    (pc = "done" /\ call.dispatches > 0 /\ call.cause # NoError) =>
        /\ result.status = "raised"
        /\ result.error.kind = RemoteErrorKind
        /\ Len(call.cause.msg) > 0
        /\ Contains(result.error.msg, call.cause.msg)

C8_Witness ==
    /\ Ready
    /\ pc = "done"
    /\ call.dispatches = 1
    /\ call.cause.kind = "PermissionDenied"
    /\ result.status = "raised"

\* C9: a call (analyze, analyze_image_simple or test_connection) has
\* dispatched at most once: not at all before the remote call and when the
\* normalization failed, once from the remote call on.
C9_AtMostOneDispatch ==
    /\ call.dispatches <= 1
    /\ pc \in {"idle", "built"} => call.dispatches = 0
    /\ pc = "inflight" => call.dispatches = 1
    /\ pc = "done" => call.dispatches = (IF call.normalized THEN 1 ELSE 0)

C9_Witness ==
    /\ Ready
    /\ pc = "done"
    /\ call.api = "simple"
    /\ call.dispatches = 1
    /\ call.cause \in RemoteFailures
    /\ result.status = "raised"

\* C10: a construction with a missing or empty credential raised before the
\* session was set up and left the process environment as it was; and no
\* client holds an empty credential.
C10_EmptyCredentialRejected ==
    /\ (last.op = "create" /\ last.arg \in {NONE, ""}) =>
          /\ last.error # NoError
          /\ ~last.session_attempted
          /\ environ = last.env_before
    /\ self.exists => self.api_key # ""

\* C11: the request of an analyze call gets its model id in the dispatch
\* step and nowhere else: before it the request names no model, the dispatch
\* step writes the client's active model of that moment (the argument of
\* the last change_model when that succeeded, the model before it when it
\* failed), and from then on the request's model id stays what it is,
\* whatever change_model does meanwhile.
C11_ModelReadOnceAtDispatch ==
    [][ /\ (pc' = "built") => call'.request.model = NONE
        /\ (pc = "built" /\ pc' = "inflight") =>
              /\ call'.request.model = self.model
              /\ call'.request.model \in ModelArgs
              /\ (last.op = "change_model" /\ last.error = NoError) =>
                    call'.request.model = last.arg
              /\ (last.op = "change_model" /\ last.error # NoError) =>
                    call'.request.model = last.before
        /\ (pc \in {"inflight", "done"} /\ pc' \in {"inflight", "done"}) =>
              call'.request.model = call.request.model
      ]_vars

\* a change_model has taken effect after the request left with the old id
C11_Witness ==
    /\ Ready
    /\ pc = "inflight"
    /\ call.request.model = "gemini-1.5-flash"
    /\ last.op = "change_model"
    /\ last.error = NoError
    /\ last.before = "gemini-1.5-flash"
    /\ self.model = "gemini-2.0-flash-exp"

\* what the remote answered to the current call, as the call saw it
ObservedAnswer ==
    [text |-> result.text,
     error |-> IF result.status = "returned" THEN NoError ELSE call.cause]

\* the stream as it was when the current call began
StreamAtCall == [stream EXCEPT !.pos = call.pos0]

\* the current call has done what analyze_image_with_prompt does on the
\* call's image with the instruction prompt
BehavesAsAnalyze(prompt) ==
    LET a == analyze_image_with_prompt(self, call.kind, call.data, prompt, fs,
                                       StreamAtCall, ObservedAnswer)
    IN  /\ stream = a.stream
        /\ call.request.parts = a.parts
        /\ probe = "none"
        /\ pc = "done" => (result = a.result /\ call.dispatches = a.dispatches)

\* C12: a call of analyze_image_simple on an image sends the parts, leaves
\* the stream, dispatches, and returns or raises as analyze_image_with_prompt
\* does on that image with the default instruction, as a direct call of
\* analyze_image_with_prompt does with the instruction it was given.
C12_SimpleIsAnalyzeWithDefault ==
    /\ call.api = "simple" => BehavesAsAnalyze(default_prompt)
    /\ call.api = "analyze" => BehavesAsAnalyze(call.prompt)

C12_Witness ==
    /\ Ready
    /\ pc = "done"
    /\ call.api = "simple"
    /\ call.kind = "stream"
    /\ call.pos0 > 0
    /\ result.status = "returned"
    /\ call.request.parts[2].text = default_prompt

\* C13: a test_connection call is an analyze call on the empty bytes object
\* with the test instruction; when it has finished it has returned True or
\* False and raised nothing, True exactly when the analyze call returned
\* and False exactly when it raised; and no step of the call changes the
\* client's model, its credential or the process environment.
C13_ProbeReturnsBool ==
    [][ /\ (call'.api = "probe") =>
              /\ call'.kind = "bytes"
              /\ call'.data = <<>>
              /\ call'.prompt = test_prompt
              /\ pc' # "done" => probe' = "none"
              /\ pc' = "done" =>
                    /\ probe' \in {"True", "False"}
                    /\ probe' = "True" <=> result'.status = "returned"
                    /\ probe' = "False" <=> result'.status = "raised"
        /\ ((call'.api = "probe" \/ call.api = "probe") /\ pc' # pc) =>
              (self' = self /\ environ' = environ)
      ]_vars

C13_Witness ==
    /\ Ready
    /\ pc = "done"
    /\ call.api = "probe"
    /\ probe = "False"
    /\ result.status = "raised"
    /\ self.model = "gemini-2.0-flash-exp"

\* C14: when the remote answers the request of a call on a readable path
\* with the text t, the call returns t itself, the empty text included, and
\* raises nothing.
C14_TextVerbatim ==
    [][ \A t \in Texts :
          (call.kind = "path" /\ RemoteText(t)) =>
              /\ pc' = "done"
              /\ result'.status = "returned"
              /\ result'.text = t
              /\ result'.error = NoError
      ]_vars

\* the empty text came back as a result
C14_Witness ==
    /\ Ready
    /\ pc = "done"
    /\ call.kind = "path"
    /\ fs.exists
    /\ call.request.parts[1].data = fs.data
    /\ Len(fs.data) = MaxLen
    /\ result.status = "returned"
    /\ result.text = ""

====
